---------------------------- MODULE Spec2Model ----------------------------
(***************************************************************************)
(* Model of zone-nameservers (src/main.go): an iterative walk of the DNS   *)
(* delegation chain from the root zone down to a target domain.            *)
(*                                                                         *)
(* Strings (domain names, zone names, server names) are sequences of       *)
(* one-character strings, so that dns.Fqdn, dns.SplitDomainName, the zone  *)
(* assembly and sort.Strings are computed character by character.          *)
(***************************************************************************)
EXTENDS Naturals, Sequences, FiniteSets

(* ------------------------------ bounds --------------------------------- *)

\* Largest number of labels of a target domain given on the command line.
MaxLabels == 2

\* Largest number of resource records (answer plus authority) of a response.
MaxRRs == 2

(* --------------------------- value universes --------------------------- *)

\* The characters a label is made of.
LabelChars == {"a", "b"}

\* Labels of the command-line argument.  The empty label makes names with a
\* doubled or leading dot, which the program accepts like any other string.
Labels == {<<>>} \cup {<<c>> : c \in LabelChars}

\* Hostnames carried by NS records.
NsNames == {<<"a", ".">>, <<"b", ".">>}

\* Resolver addresses of /etc/resolv.conf.
Resolvers == {<<"1">>, <<"2">>}

\* Byte order of the characters used ('.' = 46, digits, then letters).
CharCode(c) ==
  CASE c = "." -> 46
    [] c = "1" -> 49
    [] c = "2" -> 50
    [] c = "a" -> 97
    [] c = "b" -> 98

Range(s) == {s[i] : i \in 1..Len(s)}

SeqsUpTo(S, n) == UNION {[1..k -> S] : k \in 0..n}

RECURSIVE JoinLabels(_)
JoinLabels(ls) ==
  IF Len(ls) = 0 THEN <<>>
  ELSE IF Len(ls) = 1 THEN ls[1]
  ELSE ls[1] \o <<".">> \o JoinLabels(Tail(ls))

\* The command-line arguments the walk is run on: up to MaxLabels labels
\* joined by dots, with or without a trailing dot ("" and "." included).
Domains ==
  {JoinLabels(ls) \o sfx : ls \in SeqsUpTo(Labels, MaxLabels), sfx \in {<<>>, <<".">>}}

(* ------------------------- github.com/miekg/dns ------------------------ *)

\* dns.IsFqdn: the name ends with a dot.
IsFqdn(s) == Len(s) > 0 /\ s[Len(s)] = "."

\* A qualification that appends a dot to every name.
Fqdn_AlwaysAppends(s) == s \o <<".">>

\* dns.Fqdn: the name, with a dot appended unless it ends with one.
Fqdn(s) == IF IsFqdn(s) THEN s ELSE s \o <<".">>

\* s[b:e] of Go, with 0-based offsets b <= e.
Slice(s, b, e) == SubSeq(s, b + 1, e)

\* The scan of dns.Split / dns.NextLabel from offset i (0-based) with the
\* current label starting at offset begin: a dot before the last byte ends a
\* label; the last label ends at fqdnEnd.
RECURSIVE SplitFrom(_, _, _, _)
SplitFrom(s, begin, i, fqdnEnd) ==
  IF i >= Len(s) - 1 THEN <<Slice(s, begin, fqdnEnd)>>
  ELSE IF s[i + 1] = "." THEN <<Slice(s, begin, i)>> \o SplitFrom(s, i + 1, i + 1, fqdnEnd)
  ELSE SplitFrom(s, begin, i + 1, fqdnEnd)

\* A split that loses the rightmost label.
SplitDomainName_DropsLast(s) ==
  IF s = <<>> \/ s = <<".">> THEN <<>>
  ELSE LET all == SplitFrom(s, 0, 0, IF IsFqdn(s) THEN Len(s) - 1 ELSE Len(s))
       IN SubSeq(all, 1, Len(all) - 1)

\* dns.SplitDomainName: the labels of a name; nil for "" and for the root.
SplitDomainName(s) ==
  IF s = <<>> \/ s = <<".">> THEN <<>>
  ELSE SplitFrom(s, 0, 0, IF IsFqdn(s) THEN Len(s) - 1 ELSE Len(s))

\* A SetQuestion that adds the question to those the message holds.
SetQuestion_Appends(m, qname, qtype) ==
  [m EXCEPT !.RecursionDesired = TRUE,
            !.Question = Append(@, [Name |-> qname, Qtype |-> qtype, Qclass |-> "IN"])]

\* (*dns.Msg).SetQuestion: one question, recursion desired.
SetQuestion(m, qname, qtype) ==
  [m EXCEPT !.RecursionDesired = TRUE,
            !.Question = <<[Name |-> qname, Qtype |-> qtype, Qclass |-> "IN"]>>]

\* dns.TypeNS, the only question type the program asks.
TypeNS == "NS"

\* Response codes (dns.RcodeSuccess, dns.RcodeNameError, and one other).
RcodeSuccess == "NOERROR"
RcodeNameError == "NXDOMAIN"
Rcodes == {RcodeSuccess, RcodeNameError, "SERVFAIL"}

\* Resource records: *dns.NS with its target Ns, or a record of another type.
RRs ==
  {[Rrtype |-> "NS", Ns |-> n] : n \in NsNames} \cup {[Rrtype |-> "A", Ns |-> <<>>]}

\* Responses: a status, an answer section and an authority section (Ns).
Msgs ==
  {[Rcode |-> c, Answer |-> a, Ns |-> n] :
     c \in Rcodes,
     a \in SeqsUpTo(RRs, MaxRRs),
     n \in SeqsUpTo(RRs, MaxRRs)} \cap
  {m \in [Rcode : Rcodes, Answer : SeqsUpTo(RRs, MaxRRs), Ns : SeqsUpTo(RRs, MaxRRs)] :
     Len(m.Answer) + Len(m.Ns) <= MaxRRs}

\* The nil *dns.Msg.
NilMsg == [Rcode |-> "nil", Answer |-> <<>>, Ns |-> <<>>]

\* A message that comes back together with a transport error.
PartialMsg == [Rcode |-> RcodeSuccess, Answer |-> <<>>, Ns |-> <<>>]

\* error values: a message and the text appended to it.
NilErr == [msg |-> "nil", tail |-> <<>>]
ErrTimeout == [msg |-> "i/o timeout", tail |-> <<>>]
ErrNoServer == [msg |-> "No name server to answer the question", tail |-> <<>>]
ErrNoNameservers(zone) == [msg |-> "No nameservers found for ", tail |-> zone]
ErrNoConfig == [msg |-> "open /etc/resolv.conf: no such file or directory", tail |-> <<>>]

\* What (*dns.Client).Exchange can hand back: a response, a transport error
\* (with or without a message), or neither a response nor an error.
Exchanges ==
  {[r |-> m, err |-> NilErr] : m \in Msgs \cup {NilMsg}} \cup
  {[r |-> m, err |-> ErrTimeout] : m \in {NilMsg, PartialMsg}}

\* What dns.ClientConfigFromFile("/etc/resolv.conf") can hand back.
ConfOutcomes ==
  {[Servers |-> <<>>, err |-> ErrNoConfig]} \cup
  {[Servers |-> s, err |-> NilErr] : s \in {<<>>, <<<<"2">>, <<"1">>>>}}

\* A generator that always returns 0.
Intn_AlwaysZero(n) == {0}

\* rand.Intn(n): any of 0 .. n-1.
Intn(n) == 0..(n - 1)

(* ------------------------------ sort.Strings --------------------------- *)

\* a < b as Go compares strings: byte by byte, a proper prefix first.
RECURSIVE StrLess(_, _)
StrLess(a, b) ==
  IF Len(b) = 0 THEN FALSE
  ELSE IF Len(a) = 0 THEN TRUE
  ELSE IF CharCode(a[1]) < CharCode(b[1]) THEN TRUE
  ELSE IF CharCode(a[1]) > CharCode(b[1]) THEN FALSE
  ELSE StrLess(Tail(a), Tail(b))

\* x put in its place in the sorted list s.
RECURSIVE InsertSorted(_, _)
InsertSorted(x, s) ==
  IF Len(s) = 0 THEN <<x>>
  ELSE IF StrLess(s[1], x) THEN <<s[1]>> \o InsertSorted(x, Tail(s))
  ELSE <<x>> \o s

\* sort.Strings: the same strings in increasing order.
RECURSIVE SortStrings(_)
SortStrings(s) ==
  IF Len(s) = 0 THEN <<>> ELSE InsertSorted(s[1], SortStrings(Tail(s)))

(* ------------------------------ localQuery ----------------------------- *)

\* A localQuery that lets every response status through.
localQuery_AnyStatus(x) ==
  IF x.err # NilErr THEN [r |-> NilMsg, err |-> x.err]
  ELSE [r |-> x.r, err |-> x.err]

\* localQuery's result, given what the exchange handed back.
localQuery(x) ==
  IF x.err # NilErr THEN [r |-> NilMsg, err |-> x.err]
  ELSE IF x.r = NilMsg \/ x.r.Rcode = RcodeNameError \/ x.r.Rcode = RcodeSuccess
       THEN [r |-> x.r, err |-> x.err]
  ELSE [r |-> NilMsg, err |-> ErrNoServer]

(* ----------------------------- getNsRecords ---------------------------- *)

\* The targets of the NS records of a section, in section order.
RECURSIVE NsTargets(_)
NsTargets(section) ==
  IF Len(section) = 0 THEN <<>>
  ELSE IF section[1].Rrtype = "NS"
       THEN <<section[1].Ns>> \o NsTargets(Tail(section))
  ELSE NsTargets(Tail(section))

\* An extraction that adds the authority section's targets to the answer's.
Extracted_Merges(r) == NsTargets(r.Answer) \o NsTargets(r.Ns)

\* An extraction that falls back only when the answer section is empty.
Extracted_EmptyAnswerOnly(r) ==
  IF Len(r.Answer) = 0 THEN NsTargets(r.Ns) ELSE NsTargets(r.Answer)

\* The nameservers list before it is sorted: the answer section's NS
\* targets, or the authority section's when the answer section has none.
Extracted(r) ==
  IF Len(NsTargets(r.Answer)) = 0 THEN NsTargets(r.Ns) ELSE NsTargets(r.Answer)

\* A getNsRecords without the check of lines 78-80.
getNsRecords_NoEmptyCheck(zone, x, k) ==
  LET q == localQuery(x)
  IN IF q.err # NilErr \/ q.r = NilMsg
     THEN [nameservers |-> <<>>, randomNs |-> <<>>, err |-> q.err]
     ELSE IF Len(Extracted(q.r)) = 0
          THEN [nameservers |-> <<>>, randomNs |-> <<>>, err |-> NilErr]
     ELSE [nameservers |-> SortStrings(Extracted(q.r)),
           randomNs |-> Extracted(q.r)[k + 1],
           err |-> NilErr]

\* The index rand.Intn is asked for, when the call gets that far.
RandChoices(x) ==
  LET q == localQuery(x)
  IN IF q.err # NilErr \/ q.r = NilMsg \/ Len(Extracted(q.r)) = 0
     THEN {0}
     ELSE Intn(Len(Extracted(q.r)))

\* A getNsRecords that sorts the list first and selects from it afterwards.
getNsRecords_SelectsAfterSort(zone, x, k) ==
  LET q == localQuery(x)
  IN IF q.err # NilErr \/ q.r = NilMsg
     THEN [nameservers |-> <<>>, randomNs |-> <<>>, err |-> q.err]
     ELSE IF Len(Extracted(q.r)) = 0
          THEN [nameservers |-> <<>>, randomNs |-> <<>>,
                err |-> ErrNoNameservers(Fqdn(zone))]
     ELSE [nameservers |-> SortStrings(Extracted(q.r)),
           randomNs |-> SortStrings(Extracted(q.r))[k + 1],
           err |-> NilErr]

\* getNsRecords(zone, server) when the exchange hands back x and rand.Intn
\* returns k: the three results.
getNsRecords(zone, x, k) ==
  LET q == localQuery(x)
  IN IF q.err # NilErr \/ q.r = NilMsg
     THEN [nameservers |-> <<>>, randomNs |-> <<>>, err |-> q.err]
     ELSE IF Len(Extracted(q.r)) = 0
          THEN [nameservers |-> <<>>, randomNs |-> <<>>,
                err |-> ErrNoNameservers(Fqdn(zone))]
     ELSE [nameservers |-> SortStrings(Extracted(q.r)),
           randomNs |-> Extracted(q.r)[k + 1],
           err |-> NilErr]

\* The message localQuery sends for a zone: the shared message with its
\* question set.
QueryMsg(m, zone) == SetQuestion(m, Fqdn(zone), TypeNS)

\* The address the exchange is made with.
Port53 == <<":", "5", "3">>
Addr(server) == server \o Port53

(* -------------------------------- output ------------------------------- *)

\* One printed line per nameserver: marked when it is the selected one and
\* the level is not the last.
PrintLines(list, sel, last) ==
  [i \in 1..Len(list) |-> [marked |-> (list[i] = sel /\ ~last), name |-> list[i]]]

RootHeader == [text |-> "Retrieving list of root nameservers:", zone |-> <<>>, parent |-> <<>>]
ZoneHeader(zone, parent) ==
  [text |-> "Finding nameservers for zone", zone |-> zone, parent |-> parent]
NoHeader == [text |-> "", zone |-> <<>>, parent |-> <<>>]

(* --------------------------------- state ------------------------------- *)

VARIABLES
  pc,               \* where main is: start, root, loop, done, failed, panic
  domain,           \* os.Args[1]
  conf,             \* what ClientConfigFromFile returned
  localm,           \* the shared query message
  ns,               \* the list the last getNsRecords returned: main's
                    \* rootNameservers after the root query, its ns after
  nextNs,           \* main's nextNs
  err,              \* main's err
  domainPieces,     \* the labels not yet consumed
  assembledDomain,  \* the zone assembled so far
  net,              \* the network of the run: what the resolver hands back
                    \* for the root zone (net.root) and what the nameservers
                    \* hand back for the zones below it (net.zones), each
                    \* AnyReply or one outcome
  sent,             \* the message of every exchange made, in order
  sentTo,           \* the address of the last exchange
  header,           \* the last header line printed
  lines             \* the nameserver lines printed after that header

vars == <<pc, domain, conf, localm, ns, nextNs, err, domainPieces,
          assembledDomain, net, sent, sentTo, header, lines>>

\* The network that may hand back anything at each exchange.
AnyReply == [r |-> NilMsg, err |-> [msg |-> "any", tail |-> <<>>]]

\* What an exchange of the run can hand back.
NetOutcomes(n) == IF n = AnyReply THEN Exchanges ELSE {n}

\* An assembly that puts the label after the zone assembled so far.
Assemble_Appends(element, assembled) ==
  IF assembled = <<".">> THEN element \o <<".">>
  ELSE assembled \o element \o <<".">>

\* The zone of the next level: the label put before the zone assembled so far.
Assemble(element, assembled) ==
  IF assembled = <<".">> THEN element \o <<".">>
  ELSE element \o <<".">> \o assembled

\* The zones main calls getNsRecords for after the root, given the labels
\* left and the zone assembled so far, in the order of the loop.
RECURSIVE ZonesFrom(_, _)
ZonesFrom(pieces, assembled) ==
  IF Len(pieces) = 0 THEN <<>>
  ELSE LET zone == Assemble(pieces[Len(pieces)], assembled)
       IN <<zone>> \o ZonesFrom(SubSeq(pieces, 1, Len(pieces) - 1), zone)

\* The zones a complete walk of the argument d calls getNsRecords for, in
\* order.
WalkZones(d) == <<<<".">>>> \o ZonesFrom(SplitDomainName(d), <<".">>)

\* The zones getNsRecords is called for, over all the arguments.
ZonesAsked == UNION {Range(WalkZones(d)) : d \in Domains}

\* getNsRecords worked out once for every zone it is called for, every
\* outcome of the exchange and every index rand.Intn can give.
Results ==
  [zone \in ZonesAsked |->
     [x \in Exchanges |->
        [k \in RandChoices(x) |-> getNsRecords(zone, x, k)]]]

\* What getNsRecords(zone, server) can return on the network n, whatever
\* the exchange hands back and whatever rand.Intn returns.
ReturnsOn ==
  [zone \in ZonesAsked |->
     [n \in Exchanges \cup {AnyReply} |->
        UNION {{Results[zone][x][k] : k \in RandChoices(x)} : x \in NetOutcomes(n)}]]

Returns(zone, n) == ReturnsOn[zone][n]

ZeroMsg == [RecursionDesired |-> FALSE, Question |-> <<>>]

\* The process as it starts, before main has run.
Started ==
  /\ pc = "start"
  /\ domain \in Domains
  /\ conf = [Servers |-> <<>>, err |-> NilErr]
  /\ localm = ZeroMsg
  /\ ns = <<>>
  /\ nextNs = <<>>
  /\ err = NilErr
  /\ domainPieces = <<>>
  /\ assembledDomain = <<>>
  /\ sent = <<>>
  /\ sentTo = <<>>
  /\ header = NoHeader
  /\ lines = <<>>

Init == Started /\ net = [root |-> AnyReply, zones |-> AnyReply]

\* A resolver's answer for the root zone: two nameservers, not in order.
RootAnswer ==
  [r |-> [Rcode |-> RcodeSuccess,
          Answer |-> <<[Rrtype |-> "NS", Ns |-> <<"b", ".">>],
                       [Rrtype |-> "NS", Ns |-> <<"a", ".">>]>>,
          Ns |-> <<>>],
   err |-> NilErr]

\* The runs in which every nameserver hands back the same outcome, and the
\* resolver hands back that outcome too or RootAnswer.
InitPinned ==
  /\ Started
  /\ \E x \in Exchanges : \E y \in {x, RootAnswer} : net = [root |-> y, zones |-> x]

\* main, lines 91-112: load the resolver configuration, build the message.
LoadConfig ==
  /\ pc = "start"
  /\ \E c \in ConfOutcomes :
       /\ conf' = c
       /\ err' = c.err
       /\ IF c.err # NilErr
          THEN /\ pc' = "failed"
               /\ UNCHANGED localm
          ELSE /\ pc' = "root"
               /\ localm' = [RecursionDesired |-> TRUE,
                             Question |-> <<[Name |-> <<>>, Qtype |-> "", Qclass |-> ""]>>]
  /\ UNCHANGED <<domain, ns, nextNs, domainPieces, assembledDomain, net,
                 sent, sentTo, header, lines>>

\* A caller that carries on after a failed getNsRecords.
AfterGetNsRecords_CarriesOn(e) == "loop"

\* main, lines 118-120 and 152-154: log.Fatal on an error, else carry on.
AfterGetNsRecords(e) == IF e # NilErr THEN "failed" ELSE "loop"

\* main, lines 115-133: the root query through the first local resolver.
RootDiscovery ==
  /\ pc = "root"
  /\ header' = RootHeader
  /\ IF Len(conf.Servers) = 0
     THEN /\ pc' = "panic"
          /\ UNCHANGED <<localm, ns, nextNs, err, domainPieces,
                         assembledDomain, sent, sentTo, lines>>
     ELSE \E res \in Returns(<<".">>, net.root) :
            /\ localm' = QueryMsg(localm, <<".">>)
            /\ sent' = Append(sent, localm')
            /\ sentTo' = Addr(conf.Servers[1])
            /\ ns' = res.nameservers
            /\ nextNs' = res.randomNs
            /\ err' = res.err
            /\ pc' = AfterGetNsRecords(res.err)
            /\ IF pc' = "failed"
               THEN UNCHANGED <<domainPieces, assembledDomain, lines>>
               ELSE /\ lines' = PrintLines(res.nameservers, res.randomNs, FALSE)
                    /\ domainPieces' = SplitDomainName(domain)
                    /\ assembledDomain' = <<".">>
  /\ UNCHANGED <<domain, conf, net>>

\* main, lines 138-165: one iteration of the loop, for the last label left.
PerLabelStep ==
  /\ pc = "loop"
  /\ Len(domainPieces) > 0
  /\ LET element == domainPieces[Len(domainPieces)]
         zone == Assemble(element, assembledDomain)
     IN /\ domainPieces' = SubSeq(domainPieces, 1, Len(domainPieces) - 1)
        /\ assembledDomain' = zone
        /\ header' = ZoneHeader(zone, nextNs)
        /\ \E res \in Returns(zone, net.zones) :
             /\ localm' = QueryMsg(localm, zone)
             /\ sent' = Append(sent, localm')
             /\ sentTo' = Addr(nextNs)
             /\ ns' = res.nameservers
             /\ nextNs' = res.randomNs
             /\ err' = res.err
             /\ pc' = AfterGetNsRecords(res.err)
             /\ lines' = IF pc' = "failed" THEN <<>>
                         ELSE PrintLines(res.nameservers, res.randomNs,
                                         Fqdn(domain) = zone)
  /\ UNCHANGED <<domain, conf, net>>

\* A loop that can be left while labels remain.
LoopExit_Early ==
  /\ pc = "loop"
  /\ pc' = "done"
  /\ UNCHANGED <<domain, conf, localm, ns, nextNs, err, domainPieces,
                 assembledDomain, net, sent, sentTo, header, lines>>

\* main, line 138 and 166: no label is left, main returns.
LoopExit ==
  /\ pc = "loop"
  /\ Len(domainPieces) = 0
  /\ pc' = "done"
  /\ UNCHANGED <<domain, conf, localm, ns, nextNs, err, domainPieces,
                 assembledDomain, net, sent, sentTo, header, lines>>

Next == LoadConfig \/ RootDiscovery \/ PerLabelStep \/ LoopExit

\* Every run of the program.
Spec == Init /\ [][Next]_vars

\* The runs in which the state shows what each exchange hands back.
SpecPinned == InitPinned /\ [][Next]_vars

\* Every run of the program, each statement of main being executed in its
\* turn: main is one sequential process, and every exchange returns, with a
\* response, an error or, after ReadTimeout, a timeout.
FairSpec == Init /\ [][Next]_vars /\ WF_vars(Next)

(* ------------------------ what the claims speak of --------------------- *)

\* The labels of a name, read off its text: the text between the dots,
\* a single trailing dot aside.
StripDot(d) == IF Len(d) > 0 /\ d[Len(d)] = "." THEN SubSeq(d, 1, Len(d) - 1) ELSE d

RECURSIVE SplitOnDots(_)
SplitOnDots(s) ==
  IF \A i \in 1..Len(s) : s[i] # "." THEN <<s>>
  ELSE LET i == CHOOSE j \in 1..Len(s) : s[j] = "." /\ \A h \in 1..(j - 1) : s[h] # "."
       IN <<SubSeq(s, 1, i - 1)>> \o SplitOnDots(SubSeq(s, i + 1, Len(s)))

LabelsOf(d) == IF StripDot(d) = <<>> THEN <<>> ELSE SplitOnDots(StripDot(d))

\* A domain name proper: none of its labels is empty.
ValidDomain(d) == \A i \in 1..Len(LabelsOf(d)) : LabelsOf(d)[i] # <<>>

\* The zone made of the last k labels of d, fully qualified; the root for k = 0.
RECURSIVE DotEach(_)
DotEach(ls) == IF Len(ls) = 0 THEN <<>> ELSE ls[1] \o <<".">> \o DotEach(Tail(ls))

ZoneOfLast(d, k) ==
  IF k = 0 THEN <<".">>
  ELSE DotEach(SubSeq(LabelsOf(d), Len(LabelsOf(d)) - k + 1, Len(LabelsOf(d))))

\* The zone asked for by the i-th exchange of the run.
QueriedZone(i) == sent[i].Question[1].Name

(* --------------------------------- C1 ---------------------------------- *)

\* C1: a walk of a target domain with n labels never issues more than n+1
\* queries, and a walk that reaches Done (every query and extraction having
\* succeeded) has issued exactly n+1: one for the root, one per label.
C1_QueriesAreLabelsPlusOne ==
  /\ Len(sent) <= Len(LabelsOf(domain)) + 1
  /\ pc = "done" => Len(sent) = Len(LabelsOf(domain)) + 1

\* A finished walk of a two-label domain, three queries made.
C1_Witness ==
  /\ pc = "done"
  /\ ValidDomain(domain)
  /\ Len(LabelsOf(domain)) = 2
  /\ Len(sent) = 3
  /\ err = NilErr
  /\ ns # <<>>

(* --------------------------------- C2 ---------------------------------- *)

\* C2: for a target domain name with labels l1...ln (none of them empty),
\* the k-th query of the walk, k = 0..n, asks for the zone made of the last k
\* labels in fully-qualified form: the root first, then ln., ..., l1....ln.
\* last, in that order.
C2_ZoneSequence ==
  ValidDomain(domain) =>
    \A i \in 1..Len(sent) :
      /\ Len(sent[i].Question) = 1
      /\ QueriedZone(i) = ZoneOfLast(domain, i - 1)

\* A finished walk of a.b: ".", then "b.", then "a.b." were asked for.
C2_Witness ==
  /\ pc = "done"
  /\ domain = <<"a", ".", "b">>
  /\ Len(sent) = 3
  /\ QueriedZone(1) = <<".">>
  /\ QueriedZone(2) = <<"b", ".">>
  /\ QueriedZone(3) = <<"a", ".", "b", ".">>

(* --------------------------------- C3 ---------------------------------- *)

\* A step of the run that makes an exchange.
Queries == Len(sent') = Len(sent) + 1

\* C3: the root query goes to the first configured local resolver; the query
\* of every later level goes to the nameserver selected at the level before,
\* which is a member of the nameserver list extracted at that level and is
\* the parent nameserver named in the level's header line.
C3_ServerChain ==
  [][Queries =>
       IF Len(sent) = 0
       THEN sentTo' = Addr(conf.Servers[1])
       ELSE /\ sentTo' = Addr(nextNs)
            /\ header'.parent = nextNs
            /\ \E i \in 1..Len(ns) : ns[i] = nextNs]_vars

(* --------------------------------- C4 ---------------------------------- *)

\* C4: when getNsRecords fails at any level (a transport error or timeout, a
\* response status other than success or name-error, no NS record found),
\* the walk is Failed at once with no nameserver line printed for the level,
\* and from Failed nothing more happens: no retry, no query to another
\* nameserver of the set, no query for a later level, no line printed.
C4_FailureStopsTheWalk ==
  [][/\ (Queries /\ err' # NilErr) => (pc' = "failed" /\ lines' = <<>>)
     /\ pc = "failed" => (sent' = sent /\ lines' = lines /\ header' = header)
     /\ pc' = "done" => err' = NilErr]_vars

\* A walk that failed at its second level, after a first level that
\* returned two nameservers: two queries made, nothing printed for the level.
C4_Witness ==
  /\ pc = "failed"
  /\ Len(sent) = 2
  /\ err = ErrTimeout
  /\ Len(domainPieces) = 1
  /\ header.text = "Finding nameservers for zone"
  /\ header.parent \in NsNames
  /\ sentTo = Addr(header.parent)
  /\ lines = <<>>

(* ------------------- one call of getNsRecords, observed ----------------- *)

\* getNsRecords has been called and has returned to main.
Called == Len(sent) >= 1 /\ pc \in {"loop", "failed", "done"}

\* What the exchange of the last call handed back (in the runs that show it).
LastReply == IF Len(sent) = 1 THEN net.root ELSE net.zones

\* The exchange went through and brought a response whose status is success
\* or name-error: the response getNsRecords works on.
Received(x) ==
  /\ x.err.msg = "nil"
  /\ x.r.Rcode \in {"NOERROR", "NXDOMAIN"}

HasNs(section) == \E i \in 1..Len(section) : section[i].Rrtype = "NS"

\* How many NS records of a section have the target n.
CountNs(section, n) ==
  Cardinality({i \in 1..Len(section) : section[i].Rrtype = "NS" /\ section[i].Ns = n})

\* How many elements of a list are n.
Count(list, n) == Cardinality({i \in 1..Len(list) : list[i] = n})

\* list holds exactly the targets of the NS records of section.
IsTargetsOf(list, section) ==
  /\ \A i \in 1..Len(list) : list[i] \in NsNames
  /\ \A n \in NsNames : Count(list, n) = CountNs(section, n)

(* --------------------------------- C5 ---------------------------------- *)

\* C5: when the answer section of the response holds k > 0 NS records,
\* getNsRecords returns exactly the targets of those k records, whatever the
\* authority section holds.
C5_AnswerSectionOnly ==
  (Called /\ Received(LastReply) /\ HasNs(LastReply.r.Answer)) =>
     /\ err = NilErr
     /\ IsTargetsOf(ns, LastReply.r.Answer)

\* A call below the root whose response has an NS record in the answer
\* section and, in the authority section, an NS record with another target.
C5_Witness ==
  /\ Called
  /\ Len(sent) = 2
  /\ Received(LastReply)
  /\ LastReply.r.Answer = <<[Rrtype |-> "NS", Ns |-> <<"b", ".">>]>>
  /\ LastReply.r.Ns = <<[Rrtype |-> "NS", Ns |-> <<"a", ".">>]>>
  /\ ns = <<<<"b", ".">>>>

(* --------------------------------- C6 ---------------------------------- *)

\* C6: when the answer section holds no NS record (it may hold records of
\* other types) and the authority section holds m > 0 NS records,
\* getNsRecords returns exactly the targets of those m records.
C6_AuthorityFallback ==
  (Called /\ Received(LastReply) /\ ~HasNs(LastReply.r.Answer)
          /\ HasNs(LastReply.r.Ns)) =>
     /\ err = NilErr
     /\ IsTargetsOf(ns, LastReply.r.Ns)

\* A call whose response has a record of another type in the answer section
\* and an NS record in the authority section.
C6_Witness ==
  /\ Called
  /\ Received(LastReply)
  /\ LastReply.r.Answer = <<[Rrtype |-> "A", Ns |-> <<>>]>>
  /\ LastReply.r.Ns = <<[Rrtype |-> "NS", Ns |-> <<"a", ".">>]>>
  /\ ns = <<<<"a", ".">>>>

(* --------------------------------- C7 ---------------------------------- *)

\* C7: when a response was received and neither its answer section nor its
\* authority section holds an NS record, getNsRecords returns the error
\* "No nameservers found for <the queried zone>", no list and no selected
\* nameserver, and the run is fatal.
C7_NoNameserversIsFatal ==
  (Called /\ Received(LastReply) /\ ~HasNs(LastReply.r.Answer)
          /\ ~HasNs(LastReply.r.Ns)) =>
     /\ err = [msg |-> "No nameservers found for ", tail |-> QueriedZone(Len(sent))]
     /\ ns = <<>>
     /\ nextNs = <<>>
     /\ pc = "failed"

\* The query for zone b. of the walk of a.b gets a response without any NS
\* record.
C7_Witness ==
  /\ Called
  /\ domain = <<"a", ".", "b">>
  /\ Len(sent) = 2
  /\ Received(LastReply)
  /\ LastReply.r.Answer = <<[Rrtype |-> "A", Ns |-> <<>>]>>
  /\ LastReply.r.Ns = <<>>
  /\ err.tail = <<"b", ".">>
  /\ pc = "failed"

(* --------------------------------- C8 ---------------------------------- *)

\* main is about to call getNsRecords.
AboutToCall ==
  \/ pc = "root" /\ Len(conf.Servers) > 0
  \/ pc = "loop" /\ Len(domainPieces) > 0

\* What the call main is about to make can return.
NextReturns ==
  IF pc = "root" THEN Returns(<<".">>, net.root)
  ELSE Returns(Assemble(domainPieces[Len(domainPieces)], assembledDomain), net.zones)

\* C8: the nameserver selected from a non-empty extracted list is a member
\* of the list, and every member of the list can be the one selected: when
\* a call can return a list, it can return it with any of its members
\* selected.
C8_SelectionIsAnyMember ==
  /\ (Called /\ err = NilErr /\ ns # <<>>) => \E i \in 1..Len(ns) : ns[i] = nextNs
  /\ AboutToCall =>
       \A res \in NextReturns : \A i \in 1..Len(res.nameservers) :
         \E other \in NextReturns :
           /\ other.nameservers = res.nameservers
           /\ other.randomNs = res.nameservers[i]

\* A list of two different nameservers was returned; the one selected is
\* the second in the order of the response and the last when sorted.
C8_Witness ==
  /\ Called
  /\ Received(LastReply)
  /\ LastReply.r.Answer = <<[Rrtype |-> "NS", Ns |-> <<"a", ".">>],
                            [Rrtype |-> "NS", Ns |-> <<"b", ".">>]>>
  /\ ns = <<<<"a", ".">>, <<"b", ".">>>>
  /\ nextNs = <<"b", ".">>

(* --------------------------------- C9 ---------------------------------- *)

FullyQualified(d) == StripDot(d) \o <<".">>

\* C10: at the level whose zone is the requested domain in fully-qualified
\* form, one unmarked line is printed per nameserver extracted from the
\* response of that level, and no line carries the mark.
C10_FinalLevelUnmarked ==
  (Called /\ pc # "failed" /\ Received(LastReply)
          /\ QueriedZone(Len(sent)) = FullyQualified(domain)) =>
     /\ \A i \in 1..Len(lines) : ~lines[i].marked
     /\ Len(lines) = Len(ns)
     /\ \A i \in 1..Len(lines) : lines[i].name = ns[i]
     /\ IsTargetsOf(ns, IF HasNs(LastReply.r.Answer) THEN LastReply.r.Answer
                        ELSE LastReply.r.Ns)


(* --------------------------------- C11 --------------------------------- *)

\* The level just printed is followed by a further query.
QueryFollows == pc = "loop" /\ Len(domainPieces) > 0

\* The lines that carry the mark.
MarkedLines == {i \in 1..Len(lines) : lines[i].marked}

\* C11: at every level that is followed by a further query (the root level
\* and every per-label level before the target zone), one line is printed
\* per nameserver extracted from the response and exactly one of those lines
\* is marked, the line of the nameserver selected for the next query; all
\* other lines are unmarked.
C11_ExactlyOneMarked ==
  (QueryFollows /\ ValidDomain(domain) /\ Received(LastReply)) =>
     /\ Len(lines) = Len(ns)
     /\ \A i \in 1..Len(lines) : lines[i].name = ns[i]
     /\ IsTargetsOf(ns, IF HasNs(LastReply.r.Answer) THEN LastReply.r.Answer
                        ELSE LastReply.r.Ns)
     /\ Cardinality(MarkedLines) = 1
     /\ \A i \in MarkedLines : lines[i].name = nextNs


(* --------------------------------- C12 --------------------------------- *)

\* The same domain written the other way: without its trailing dot if it
\* has one, with a trailing dot if it has none.
Twin(d) == IF IsFqdn(d) THEN StripDot(d) ELSE d \o <<".">>

ConfigUnusable == pc # "start" /\ (conf.err # NilErr \/ Len(conf.Servers) = 0)

\* C13: if the local resolver configuration is missing, unreadable or lists
\* no resolver address, the run fails fatally in Init, before the walk is
\* begun: nothing of the walk is printed and no DNS query is issued.
C13_ConfigFailureInInit ==
  ConfigUnusable =>
     /\ pc = "failed"
     /\ err # NilErr
     /\ header = NoHeader
     /\ sent = <<>>


(* --------------------------------- C14 --------------------------------- *)

\* C14: whenever getNsRecords returns without an error, the list it returns
\* is non-empty and the selected nameserver it returns is a member of the
\* list, for every outcome of the exchange, the one with no error and no
\* response included; so no query is made to an empty server name.
C14_NoErrorMeansNameservers ==
  /\ (Called /\ err = NilErr) =>
        /\ ns # <<>>
        /\ \E i \in 1..Len(ns) : ns[i] = nextNs
  /\ Len(sent) >= 2 => sentTo # Addr(<<>>)


(* --------------------------------- C15 --------------------------------- *)

\* The zone of the level of the last query, as main holds it.
LevelZone == IF Len(sent) = 1 THEN <<".">> ELSE assembledDomain

\* C15: every message sent by the walk, at every level and after any number
\* of reuses of the shared message, carries exactly one question, whose name
\* is the zone of the level in fully-qualified form and whose type is NS,
\* with the recursion-desired bit set; no question of an earlier level
\* remains in it.
C15_OneQuestionPerMessage ==
  /\ \A i \in 1..Len(sent) :
       /\ sent[i].RecursionDesired
       /\ Len(sent[i].Question) = 1
       /\ sent[i].Question[1].Qtype = TypeNS
       /\ IsFqdn(QueriedZone(i))
       /\ ValidDomain(domain) => QueriedZone(i) = ZoneOfLast(domain, i - 1)
  /\ Len(sent) >= 1 =>
       /\ localm = sent[Len(sent)]
       /\ QueriedZone(Len(sent)) = Fqdn(LevelZone)
       /\ Len(sent) >= 2 => header.zone = LevelZone

\* The shared message after its third use, in the walk of a.b: it holds the
\* question for "a.b." only, the one sent before it held the one for "b.".
C15_Witness ==
  /\ Len(sent) = 3
  /\ domain = <<"a", ".", "b">>
  /\ localm.Question = <<[Name |-> <<"a", ".", "b", ".">>, Qtype |-> "NS", Qclass |-> "IN"]>>
  /\ sent[2].Question = <<[Name |-> <<"b", ".">>, Qtype |-> "NS", Qclass |-> "IN"]>>
  /\ sent[1].Question = <<[Name |-> <<".">>, Qtype |-> "NS", Qclass |-> "IN"]>>
  /\ localm.RecursionDesired


(* --------------------------------- C16 --------------------------------- *)

\* The section of a response the nameservers are taken from.
UsedSection(r) == IF HasNs(r.Answer) THEN r.Answer ELSE r.Ns

\* The target of the n-th NS record of a section, in the order of the
\* response (n from 1).
NthNs(section, n) ==
  LET i == CHOOSE j \in 1..Len(section) :
             /\ section[j].Rrtype = "NS"
             /\ Cardinality({h \in 1..j : section[h].Rrtype = "NS"}) = n
  IN section[i].Ns

\* A list in lexicographic order.
IsSorted(list) == \A i, j \in 1..Len(list) : i < j => ~StrLess(list[j], list[i])

\* What the exchange of the call main is about to make hands back, and the
\* zone the call is made for.
NextReply == IF pc = "root" THEN net.root ELSE net.zones

NextZone ==
  IF pc = "root" THEN <<".">>
  ELSE Assemble(domainPieces[Len(domainPieces)], assembledDomain)

\* C16: getNsRecords selects the nameserver for the next query from the
\* list in response order, before the list is sorted (when rand.Intn gives
\* k, the target of the k-th NS record of the response, k from 0), and the
\* list it returns is a lexicographically sorted permutation of the
\* extracted records, same elements with the same multiplicities: sorting
\* changes neither which nameserver is selected nor which are reported.
C16_SelectionBeforeSort ==
  /\ (Called /\ Received(LastReply) /\ err = NilErr) =>
        /\ IsSorted(ns)
        /\ IsTargetsOf(ns, UsedSection(LastReply.r))
  /\ (AboutToCall /\ Received(NextReply) /\ HasNs(UsedSection(NextReply.r))) =>
        \A k \in 0..(Len(NsTargets(UsedSection(NextReply.r))) - 1) :
           LET res == Results[NextZone][NextReply][k]
           IN /\ res.err = NilErr
              /\ res.randomNs = NthNs(UsedSection(NextReply.r), k + 1)

\* The response lists b. before a.: the list returned is a., b. and the
\* nameserver selected is b., the first of the response and the last of
\* the sorted list.
C16_Witness ==
  /\ Called
  /\ Len(sent) = 2
  /\ Received(LastReply)
  /\ LastReply.r.Answer = <<[Rrtype |-> "NS", Ns |-> <<"b", ".">>],
                            [Rrtype |-> "NS", Ns |-> <<"a", ".">>]>>
  /\ ns = <<<<"a", ".">>, <<"b", ".">>>>
  /\ nextNs = <<"b", ".">>
  /\ err = NilErr


(* --------------------------------- C17 --------------------------------- *)

\* main has a resolver to begin the walk with.
WalkBegins == pc = "root" /\ Len(conf.Servers) > 0

\* The run is over: Done or Failed.
Ended == pc \in {"done", "failed"}

\* The run was ended by the runtime: the index of line 117 is out of range.
Crashed == pc = "panic"

=============================================================================
